---- MODULE Spec2Model ----
(***************************************************************************)
(* Model of the schedule resolver of hmodb-js (src/src/schedule.ts):       *)
(* parseDuration, addDuration, applyTimeToDate, expandSchedule,            *)
(* matchesFilter, resolveEvents, getUpcomingEvents, getUpcomingMasses.     *)
(*                                                                         *)
(* Time.  A Date is an integer number of hours since 2025-03-02T00:00Z,   *)
(* a Sunday (all "HH:mm" strings of the model have mm = 00).  A calendar   *)
(* date "YYYY-MM-DD" is the number of the day since that Sunday, so the    *)
(* test dates 2025-03-10, 2025-03-16 and 2025-03-24 are days 8, 14, 22.    *)
(* An optional value (x?: T) is the empty set (undefined) or {v}.          *)
(***************************************************************************)
EXTENDS Integers, Sequences, FiniteSets, TLC

VARIABLES
    events,     \* ParsedEvent[] handed to the resolver
    schedule,   \* ParsedSchedule handed to expandSchedule
    opts,       \* ExpandOptions & EventFilter
    hour24,     \* platform: Intl formats local midnight as hour "24"
    pc,         \* "ready" before the call, "done" after it, "thrown" when
                \* it threw, "again" after a second, identical call; inside
                \* expandSchedule "dayWalk" or "intervalWalk", the loop it is in
    walk,       \* the local variables of expandSchedule, inside a loop
    op,         \* the entry point that was called
    dates,      \* Date[] returned by expandSchedule (results, inside a loop)
    result      \* MassInstance[] returned by the resolver

vars == <<events, schedule, opts, hour24, pc, walk, op, dates, result>>

\* ------------------------------------------------------------------ bounds

MaxEvents == 3
MaxWeeks == 2
SmallLimit == 2
LongWindowDays == 600

\* ------------------------------------------------------- optional values

None == {}
Some(v) == {v}
IsSet(o) == o # {}
Val(o) == CHOOSE v \in o : TRUE

\* ------------------------------------------------------------------ dates

HoursPerDay == 24
DaysPerWeek == 7
DefaultLimit == 500
DefaultWindowDays == 30

\* the time value of an Invalid Date (NaN): no instant of the model
InvalidDate == -1000000
IsValidDate(date) == date # InvalidDate

\* a < b on two Dates: false when one of them is an Invalid Date
Before(a, b) == IsValidDate(a) /\ IsValidDate(b) /\ a < b

\* "HH:00" is a time of day: new Date(`${ymd}T${time}:00Z`) is a valid Date
ValidTime(time) == time \in 0..(HoursPerDay - 1)

\* Date.UTC(y, m, d): the instant of UTC midnight of a calendar day
MidnightOf(day) == day * HoursPerDay

\* toYMD(date) = date.toISOString().slice(0, 10): the UTC calendar day
toYMD(date) == date \div HoursPerDay

\* utcYMD + Date.UTC: the UTC midnight at or before an instant
utcMidnight(date) == MidnightOf(toYMD(date))

\* Date.prototype.getUTCDay: 0 = Sunday .. 6 = Saturday (day 0 is a Sunday)
getUTCDay(date) == toYMD(date) % DaysPerWeek

\* UTC hour of the day of an instant
HourOf(date) == date % HoursPerDay

\* ------------------------------------------------- the timezone database

\* 2025-03-09T07:00Z: America/New_York leaves EST (UTC-5) for EDT (UTC-4)
NewYorkSpringForward == 7 * HoursPerDay + 7

\* 2025-03-30T01:00Z: Europe/Madrid leaves CET (UTC+1) for CEST (UTC+2)
MadridSpringForward == 28 * HoursPerDay + 1

\* The zones Intl.DateTimeFormat accepts; any other name makes it throw
KnownZones == {"Asia/Tokyo", "America/New_York", "Europe/Madrid"}

\* UTC offset, in hours, that zone has at instant t
ZoneOffset(zone, t) ==
    CASE zone = "Asia/Tokyo" -> 9
      [] zone = "America/New_York" ->
            IF t < NewYorkSpringForward THEN -5 ELSE -4
      [] zone = "Europe/Madrid" ->
            IF t < MadridSpringForward THEN 1 ELSE 2
      [] OTHER -> 0

\* formatToParts(probe) read back as a UTC instant: the wall clock of the
\* zone at probe.  A platform with hour24 prints local midnight as "24", and
\* Date parses "T24:00:00Z" as the midnight that ends that day.
LocalPartsMs(zone, probe) ==
    LET local == probe + ZoneOffset(zone, probe)
    IN  IF hour24 /\ HourOf(local) = 0 THEN local + HoursPerDay ELSE local

\* applyTimeToDate(date, time, timezone), date a valid Date: time is the HH
\* of "HH:00".  A time that is no time of day makes probe an Invalid Date;
\* formatToParts then throws inside the try, and the fallback returns the
\* same Invalid Date.
applyTimeToDate(date, time, timezone) ==
    LET probe == MidnightOf(toYMD(date)) + time
    IN  IF ~ValidTime(time) THEN InvalidDate
        ELSE IF IsSet(timezone) /\ Val(timezone) \in KnownZones
        THEN LET offsetMs == LocalPartsMs(Val(timezone), probe) - probe
             IN  probe - offsetMs
        ELSE probe

\* ------------------------------------------------------------- durations

Digits == <<"0", "1", "2", "3", "4", "5", "6", "7", "8", "9">>
IsDigit(c) == \E i \in 1..Len(Digits) : Digits[i] = c
DigitVal(c) == (CHOOSE i \in 1..Len(Digits) : Digits[i] = c) - 1

\* the position after the run of digits (\d+) that starts at p
RECURSIVE DigitsEnd(_, _)
DigitsEnd(s, p) ==
    IF p <= Len(s) /\ IsDigit(s[p]) THEN DigitsEnd(s, p + 1) ELSE p

\* parseInt of s[p..q-1]
RECURSIVE ParseInt(_, _, _, _)
ParseInt(s, p, q, acc) ==
    IF p >= q THEN acc ELSE ParseInt(s, p + 1, q, acc * 10 + DigitVal(s[p]))

\* one optional group (?:(\d+)X)? of the pattern, tried at position p
Group(s, p, letter) ==
    LET q == DigitsEnd(s, p)
    IN  IF q > p /\ q <= Len(s) /\ s[q] = letter
        THEN [val |-> Some(ParseInt(s, p, q, 0)), next |-> q + 1]
        ELSE [val |-> None, next |-> p]

\* parseDuration(iso): /^P(?:(\d+)Y)?(?:(\d+)M)?(?:(\d+)W)?(?:(\d+)D)?/
parseDuration(iso) ==
    IF Len(iso) = 0 \/ iso[1] # "P"
    THEN [years |-> None, months |-> None, weeks |-> Some(1), days |-> None]
    ELSE LET y == Group(iso, 2, "Y")
             m == Group(iso, y.next, "M")
             w == Group(iso, m.next, "W")
             d == Group(iso, w.next, "D")
         IN  [years |-> y.val, months |-> m.val, weeks |-> w.val, days |-> d.val]

\* JavaScript truthiness of an optional number: set and not 0
Truthy(o) == IsSet(o) /\ Val(o) # 0

\* Lengths of the months from March 2025 on (no leap year before 2028)
MonthLengths == <<31, 30, 31, 30, 31, 31, 30, 31, 30, 31, 31, 28>>

\* the day on which month k begins; month 0 is March 2025, day -1
RECURSIVE MonthStartDay(_)
MonthStartDay(k) ==
    IF k = 0 THEN -1
    ELSE MonthStartDay(k - 1) + MonthLengths[((k - 1) % Len(MonthLengths)) + 1]

\* the month a day lies in, searched from month k
RECURSIVE MonthOfDay(_, _)
MonthOfDay(day, k) ==
    IF day < MonthStartDay(k + 1) THEN k ELSE MonthOfDay(day, k + 1)

\* setMonth(getMonth() + n): same day of the month, n months later, with
\* the overflow Date applies when that month is shorter
addMonths(date, n) ==
    LET day == toYMD(date)
        k == MonthOfDay(day, 0)
        dom == day - MonthStartDay(k)
    IN  MidnightOf(MonthStartDay(k + n) + dom) + HourOf(date)

\* addDuration(date, dur), with the process running in UTC
addDuration(date, dur) ==
    LET d1 == IF Truthy(dur.years)
              THEN addMonths(date, Len(MonthLengths) * Val(dur.years)) ELSE date
        d2 == IF Truthy(dur.months) THEN addMonths(d1, Val(dur.months)) ELSE d1
        d3 == IF Truthy(dur.weeks)
              THEN d2 + Val(dur.weeks) * DaysPerWeek * HoursPerDay ELSE d2
    IN  IF Truthy(dur.days) THEN d3 + Val(dur.days) * HoursPerDay ELSE d3

\* ---------------------------------------------------- schedule expansion

\* const limit = opts.limit ?? 500
LimitOf(o) == IF IsSet(o.limit) THEN Val(o.limit) ELSE DefaultLimit

\* const until = opts.to ?? from + 30 days
UntilOf(o) ==
    IF IsSet(o.to) THEN Val(o.to) ELSE o.from + DefaultWindowDays * HoursPerDay

\* boundsStart = startDate && startDate > now ? startDate : now
BoundsStart(s, now) ==
    IF IsSet(s.startDate) /\ Before(now, Val(s.startDate))
    THEN Val(s.startDate) ELSE now

\* mutant of BoundsEnd: the schedule's endDate is not applied
BoundsEndOfWindow(s, until) == until

\* boundsEnd = endDate && endDate < until ? endDate : until
BoundsEnd(s, until) ==
    IF IsSet(s.endDate) /\ Before(Val(s.endDate), until)
    THEN Val(s.endDate) ELSE until

\* mutant of EmptyBounds: tests the walk's first cursor, not boundsStart
EmptyBoundsByCursor(boundsStart, boundsEnd) == utcMidnight(boundsStart) > boundsEnd

\* if (boundsStart > boundsEnd) return []
EmptyBounds(boundsStart, boundsEnd) == boundsStart > boundsEnd

\* mutant of AnchorOf: the anchor is always taken from boundsStart
AnchorOfBoundsStart(s, boundsStart) == utcMidnight(boundsStart)

\* anchor = UTC midnight of (schedule.startDate ?? boundsStart)
\* (Date.UTC of the NaN fields of an Invalid Date is an Invalid Date)
AnchorOf(s, boundsStart) ==
    LET anchorSource == IF IsSet(s.startDate) THEN Val(s.startDate) ELSE boundsStart
    IN  IF IsValidDate(anchorSource) THEN utcMidnight(anchorSource) ELSE InvalidDate

\* repeatWeeks = dur.weeks ?? 1
RepeatWeeks(dur) == IF IsSet(dur.weeks) THEN Val(dur.weeks) ELSE 1

\* mutant of InCycle: the week count is not reduced modulo repeatWeeks
InCycleEveryWeek(cursor, anchor, repeatWeeks) == repeatWeeks # 0

\* Math.round((cursor - anchor) / weekMs) % repeatWeeks === 0
\* (x % 0 is NaN, and so is Math.round of the distance from an invalid
\* anchor; NaN is not 0)
InCycle(cursor, anchor, repeatWeeks) ==
    LET weekMs == DaysPerWeek * HoursPerDay
        weeksSinceAnchor == (2 * (cursor - anchor) + weekMs) \div (2 * weekMs)
    IN  IsValidDate(anchor) /\ repeatWeeks # 0 /\ weeksSinceAnchor % repeatWeeks = 0

\* mutant of IsExcepted: looks the Date itself up in the set of strings
IsExceptedByObject(s, cursor) == FALSE

\* exceptSet.has(toYMD(cursor))
IsExcepted(s, cursor) == toYMD(cursor) \in s.exceptDates

\* startTime ? applyTimeToDate(cursor, startTime, timezone) : new Date(cursor)
InstanceAt(s, cursor) ==
    IF IsSet(s.startTime)
    THEN applyTimeToDate(cursor, Val(s.startTime), s.timezone)
    ELSE cursor

\* mutant of DayMatches: numbers the weekdays from Monday = 0
DayMatchesFromMonday(s, cursor) ==
    (toYMD(cursor) + DaysPerWeek - 1) % DaysPerWeek \in s.byDay

\* daySet.has(cursor.getUTCDay())
DayMatches(s, cursor) == getUTCDay(cursor) \in s.byDay

\* mutant of LoopContinues: the loop is bounded by the window alone
LoopContinuesToBoundsEnd(c, boundsEnd, limit, results) == c <= boundsEnd

\* while (cursor <= boundsEnd && results.length < limit)
LoopContinues(c, boundsEnd, limit, results) ==
    c <= boundsEnd /\ Len(results) < limit

\* the three nested tests of the day-of-week loop body
DayFires(s, c, anchor, repeatWeeks) ==
    DayMatches(s, c) /\ InCycle(c, anchor, repeatWeeks) /\ ~IsExcepted(s, c)

\* results after one pass of the day-of-week loop body
DayPass(s, c, anchor, repeatWeeks, results) ==
    IF DayFires(s, c, anchor, repeatWeeks)
    THEN Append(results, InstanceAt(s, c)) ELSE results

\* mutant of IntervalPass: the exception dates are not looked at
IntervalPassAlways(s, c, results) == Append(results, InstanceAt(s, c))

\* results after one pass of the fixed-interval loop body
IntervalPass(s, c, results) ==
    IF ~IsExcepted(s, c) THEN Append(results, InstanceAt(s, c)) ELSE results

\* the day-of-week loop: one UTC day per step
RECURSIVE DayWalk(_, _, _, _, _, _, _)
DayWalk(s, c, boundsEnd, limit, anchor, repeatWeeks, results) ==
    IF ~LoopContinues(c, boundsEnd, limit, results) THEN results
    ELSE DayWalk(s, c + HoursPerDay, boundsEnd, limit, anchor, repeatWeeks,
                 DayPass(s, c, anchor, repeatWeeks, results))

\* the fixed-interval loop: one repeatFrequency per step
RECURSIVE IntervalWalk(_, _, _, _, _, _)
IntervalWalk(s, c, boundsEnd, limit, dur, results) ==
    IF ~LoopContinues(c, boundsEnd, limit, results) THEN results
    ELSE IntervalWalk(s, addDuration(c, dur), boundsEnd, limit, dur,
                      IntervalPass(s, c, results))

\* dur.days || dur.weeks || dur.months || dur.years
HasInterval(dur) ==
    Truthy(dur.days) \/ Truthy(dur.weeks) \/ Truthy(dur.months) \/ Truthy(dur.years)

\* expandSchedule(schedule, opts)
expandSchedule(s, o) ==
    LET now == o.from
        limit == LimitOf(o)
        dur == parseDuration(s.repeatFrequency)
        boundsStart == BoundsStart(s, now)
        boundsEnd == BoundsEnd(s, UntilOf(o))
    IN  IF EmptyBounds(boundsStart, boundsEnd) THEN <<>>
        ELSE IF s.byDay # {}
        THEN DayWalk(s, utcMidnight(boundsStart), boundsEnd, limit,
                     AnchorOf(s, boundsStart), RepeatWeeks(dur), <<>>)
        ELSE IF HasInterval(dur)
        THEN IntervalWalk(s, boundsStart, boundsEnd, limit, dur, <<>>)
        ELSE <<>>

\* ---------------------------------------------------------------- filter

\* WikidataId.Mass
Mass == "https://www.wikidata.org/wiki/Q132612"

\* mutant of matchesFilter: an event without serviceType passes every
\* serviceType filter
matchesFilterUntypedPass(event, filter) ==
    LET typeOk ==
            IF filter.serviceType # {} /\ IsSet(event.serviceType)
            THEN Val(event.serviceType) \in filter.serviceType
            ELSE TRUE
        languageOk ==
            IF filter.language # {}
            THEN ~(event.languages = {} \/ event.languages \cap filter.language = {})
            ELSE TRUE
    IN  typeOk /\ languageOk

\* matchesFilter(event, filter).  serviceType and language are the arrays
\* toArr makes of the filter's fields; includeLanguageUnknown is not read.
matchesFilter(event, filter) ==
    LET typeOk ==
            IF filter.serviceType # {}
            THEN IF ~IsSet(event.serviceType)
                 THEN filter.includeUntyped = TRUE
                 ELSE Val(event.serviceType) \in filter.serviceType
            ELSE TRUE
        languageOk ==
            IF filter.language # {}
            THEN ~(event.languages = {} \/ event.languages \cap filter.language = {})
            ELSE TRUE
    IN  typeOk /\ languageOk

\* -------------------------------------------------------------- resolver

\* if (event.schedule.endDate && event.schedule.endDate < from) continue
IsStale(s, from) == IsSet(s.endDate) /\ Before(Val(s.endDate), from)

\* event.startDate >= from && event.startDate <= to
InWindow(startDate, from, to) ==
    IsValidDate(startDate) /\ startDate >= from /\ startDate <= to

\* the instance pushed for one expanded date of a recurring event
RecurringInstance(event, src, startDate) ==
    LET s == Val(event.schedule)
    IN  [src |-> src,
         startDate |-> startDate,
         endDate |-> IF IsSet(s.endTime)
                     THEN Some(applyTimeToDate(startDate, Val(s.endTime), s.timezone))
                     ELSE None,
         name |-> event.name,
         serviceType |-> event.serviceType,
         status |-> event.status,
         osmId |-> event.osmId,
         languages |-> event.languages,
         previousStartDate |-> None]

\* the instance pushed for a one-off event
OneOffInstance(event, src) ==
    [src |-> src,
     startDate |-> Val(event.startDate),
     endDate |-> event.endDate,
     name |-> event.name,
     serviceType |-> event.serviceType,
     status |-> event.status,
     osmId |-> event.osmId,
     languages |-> event.languages,
     previousStartDate |-> event.previousStartDate]

\* mutant of EmitFor: the one-off startDate is looked at before the schedule
EmitForStartDateFirst(event, src, from, to, o, filter) ==
    IF ~matchesFilter(event, filter) THEN <<>>
    ELSE IF IsSet(event.startDate)
    THEN IF InWindow(Val(event.startDate), from, to)
         THEN <<OneOffInstance(event, src)>>
         ELSE <<>>
    ELSE IF IsSet(event.schedule)
    THEN IF IsStale(Val(event.schedule), from) THEN <<>>
         ELSE LET ds == expandSchedule(Val(event.schedule),
                                       [o EXCEPT !.from = from, !.to = Some(to)])
              IN  [k \in 1..Len(ds) |-> RecurringInstance(event, src, ds[k])]
    ELSE <<>>

\* mutant of EmitFor: a definition with neither schedule nor startDate is
\* taken to start at from (event.startDate ?? from)
EmitForUndatedAtFrom(event, src, from, to, o, filter) ==
    IF ~matchesFilter(event, filter) THEN <<>>
    ELSE IF IsSet(event.schedule)
    THEN IF IsStale(Val(event.schedule), from) THEN <<>>
         ELSE LET ds == expandSchedule(Val(event.schedule),
                                       [o EXCEPT !.from = from, !.to = Some(to)])
              IN  [k \in 1..Len(ds) |-> RecurringInstance(event, src, ds[k])]
    ELSE IF IsSet(event.startDate)
    THEN IF InWindow(Val(event.startDate), from, to)
         THEN <<OneOffInstance(event, src)>>
         ELSE <<>>
    ELSE <<OneOffInstance([event EXCEPT !.startDate = Some(from)], src)>>

\* the instances one event contributes (the body of the first loop)
EmitFor(event, src, from, to, o, filter) ==
    IF ~matchesFilter(event, filter) THEN <<>>
    ELSE IF IsSet(event.schedule)
    THEN IF IsStale(Val(event.schedule), from) THEN <<>>
         ELSE LET ds == expandSchedule(Val(event.schedule),
                                       [o EXCEPT !.from = from, !.to = Some(to)])
              IN  [k \in 1..Len(ds) |-> RecurringInstance(event, src, ds[k])]
    ELSE IF IsSet(event.startDate)
    THEN IF InWindow(Val(event.startDate), from, to)
         THEN <<OneOffInstance(event, src)>>
         ELSE <<>>
    ELSE <<>>

\* the array `instances` after the first loop; each element is a distinct
\* object, named by its position (id)
RECURSIVE Emitted(_, _, _, _, _, _)
Emitted(evs, n, from, to, o, filter) ==
    IF n = 0 THEN <<>>
    ELSE Emitted(evs, n - 1, from, to, o, filter)
         \o EmitFor(evs[n], n, from, to, o, filter)

Identified(insts) ==
    [k \in 1..Len(insts) |-> [id |-> k] @@ insts[k]]

\* mutant of IsScheduled: every status that marks no override counts as
\* scheduled
IsNotOverridden(i) == i.status \notin {"cancelled", "rescheduled"}

\* instances.filter(...)
IsScheduled(i) == i.status = "scheduled"
IsOverride(i) == i.status = "cancelled" \/ i.status = "rescheduled"

\* mutant of OverrideMatches: compares the instants, not their UTC days
OverrideMatchesInstant(ov, s) ==
    ov.startDate = s.startDate /\ ov.osmId = s.osmId

\* the predicate of overrides.find: same UTC day, same location osmId
OverrideMatches(ov, s) ==
    toYMD(ov.startDate) = toYMD(s.startDate) /\ ov.osmId = s.osmId

\* overrides.find(...): the first matching override, if any
FindOverride(overrides, s) ==
    LET hits == {k \in 1..Len(overrides) : OverrideMatches(overrides[k], s)}
    IN  IF hits = {} THEN None
        ELSE Some(overrides[CHOOSE k \in hits : \A j \in hits : k <= j])

\* mutant of Substituted: pushes s whether or not an override was found
SubstitutedKeepsScheduled(scheduled, overrides) == scheduled

\* the loop over scheduled: push the override found, or s itself
Substituted(scheduled, overrides) ==
    [k \in 1..Len(scheduled) |->
        LET ov == FindOverride(overrides, scheduled[k])
        IN  IF IsSet(ov) THEN Val(ov) ELSE scheduled[k]]

\* appliedOverrides after that loop
AppliedOverrides(scheduled, overrides) ==
    {Val(FindOverride(overrides, scheduled[k])) :
        k \in {j \in 1..Len(scheduled) : IsSet(FindOverride(overrides, scheduled[j]))}}

\* mutant of Reconciled: the unapplied overrides are not appended
ReconciledWithoutStandalone(instances) ==
    Substituted(SelectSeq(instances, IsScheduled), SelectSeq(instances, IsOverride))

\* result before the sort: substituted list, then the unapplied overrides
Reconciled(instances) ==
    LET scheduled == SelectSeq(instances, IsScheduled)
        overrides == SelectSeq(instances, IsOverride)
        applied == AppliedOverrides(scheduled, overrides)
        Standalone(ov) == ov \notin applied
    IN  Substituted(scheduled, overrides) \o SelectSeq(overrides, Standalone)

\* mutant of InsertByStart: an element goes before the elements of equal
\* startDate already in place (a sort that reverses ties)
RECURSIVE InsertByStartBeforeTies(_, _)
InsertByStartBeforeTies(sorted, x) ==
    IF sorted = <<>> THEN <<x>>
    ELSE IF sorted[Len(sorted)].startDate < x.startDate THEN Append(sorted, x)
    ELSE Append(InsertByStartBeforeTies(SubSeq(sorted, 1, Len(sorted) - 1), x),
                sorted[Len(sorted)])

\* Array.prototype.sort with (a, b) => a.startDate - b.startDate: stable
RECURSIVE InsertByStart(_, _)
InsertByStart(sorted, x) ==
    IF sorted = <<>> THEN <<x>>
    ELSE IF sorted[Len(sorted)].startDate <= x.startDate THEN Append(sorted, x)
    ELSE Append(InsertByStart(SubSeq(sorted, 1, Len(sorted) - 1), x),
                sorted[Len(sorted)])

RECURSIVE SortPrefix(_, _)
SortPrefix(seq, n) ==
    IF n = 0 THEN <<>> ELSE InsertByStart(SortPrefix(seq, n - 1), seq[n])

\* mutant of SortByStart: the comparator's operands swapped (b - a)
SortByStartDescending(seq) ==
    LET up == SortPrefix(seq, Len(seq))
    IN  [k \in 1..Len(up) |-> up[Len(up) + 1 - k]]

SortByStart(seq) == SortPrefix(seq, Len(seq))

\* mutant of resolveEvents: the array result lives outside the function and
\* is not emptied between calls
resolveEventsSharedResult(evs, from, to, o, filter) ==
    SortByStart(result
                \o Reconciled(Identified(Emitted(evs, Len(evs), from, to, o, filter))))

\* the sort on valid Dates; with an Invalid Date the comparator returns NaN,
\* it is no consistent comparator and the order is implementation-defined
SortOutcomes(seq) ==
    IF \A k \in 1..Len(seq) : IsValidDate(seq[k].startDate)
    THEN {SortByStart(seq)}
    ELSE {[k \in 1..Len(seq) |-> seq[p[k]]] : p \in Permutations(1..Len(seq))}

\* the first loop throws: applyTimeToDate(startDate, endTime, timezone) calls
\* toYMD, and toISOString throws a RangeError on an Invalid Date
EndDateThrows(event, from, to, o, filter) ==
    /\ matchesFilter(event, filter)
    /\ IsSet(event.schedule)
    /\ ~IsStale(Val(event.schedule), from)
    /\ IsSet(Val(event.schedule).endTime)
    /\ LET ds == expandSchedule(Val(event.schedule),
                                [o EXCEPT !.from = from, !.to = Some(to)])
       IN  \E k \in 1..Len(ds) : ~IsValidDate(ds[k])

\* the second loop throws: the predicate of overrides.find calls toYMD on
\* the scheduled instance as soon as there is an override to compare with
MatchThrows(instances) ==
    /\ \E k \in 1..Len(instances) : IsOverride(instances[k])
    /\ \E k \in 1..Len(instances) :
           IsScheduled(instances[k]) /\ ~IsValidDate(instances[k].startDate)

\* resolveEvents throws a RangeError
resolveThrows(evs, from, to, o, filter) ==
    \/ \E n \in 1..Len(evs) : EndDateThrows(evs[n], from, to, o, filter)
    \/ MatchThrows(Emitted(evs, Len(evs), from, to, o, filter))

\* resolveEvents(events, from, to, opts, filter)
resolveEvents(evs, from, to, o, filter) ==
    SortByStart(Reconciled(Identified(Emitted(evs, Len(evs), from, to, o, filter))))

\* getUpcomingEvents(events, opts)
getUpcomingEvents(evs, o) == resolveEvents(evs, o.from, UntilOf(o), o, o)

\* mutant of getUpcomingMasses: includeUntyped is left as the caller gave it
getUpcomingMassesAsTyped(evs, o) ==
    getUpcomingEvents(evs, [o EXCEPT !.serviceType = {Mass}])

\* getUpcomingMasses(events, opts)
getUpcomingMasses(evs, o) ==
    getUpcomingEvents(evs, [o EXCEPT !.serviceType = {Mass}, !.includeUntyped = TRUE])

\* what a call of the resolver with options o does: it throws, or it
\* returns; resolved is the list returned when every startDate is valid
CallOutcomes(evs, o, resolved) ==
    LET emitted == Emitted(evs, Len(evs), o.from, UntilOf(o), o, o)
    IN  IF resolveThrows(evs, o.from, UntilOf(o), o, o)
        THEN {[pc |-> "thrown", result |-> <<>>]}
        ELSE IF \A k \in 1..Len(emitted) : IsValidDate(emitted[k].startDate)
        THEN {[pc |-> "done", result |-> resolved]}
        ELSE {[pc |-> "done", result |-> r] :
                 r \in SortOutcomes(Reconciled(Identified(emitted)))}

\* ---------------------------------------------------------------- inputs

\* an instant given by its day and hour
At(day, hour) == MidnightOf(day) + hour

NoSchedule ==
    [byDay |-> {}, startTime |-> None, endTime |-> None,
     repeatFrequency |-> <<"P", "1", "W">>, startDate |-> None, endDate |-> None,
     exceptDates |-> {}, timezone |-> None]

NoEvent ==
    [name |-> "Mass", serviceType |-> None, status |-> "scheduled", osmId |-> None,
     languages |-> {}, startDate |-> None, endDate |-> None,
     previousStartDate |-> None, schedule |-> None]

Cathedral == Some("node/1")
Chapel == Some("node/2")
EucharisticAdoration == "https://www.wikidata.org/wiki/Q1232710"

\* weekly Sunday Mass at 11:00, as in the tests (parse.test.ts)
SundayMass ==
    [NoEvent EXCEPT !.name = "Sunday Mass", !.serviceType = Some(Mass),
        !.languages = {"es"}, !.osmId = Cathedral,
        !.schedule = Some([NoSchedule EXCEPT !.byDay = {0}, !.startTime = Some(11),
                              !.endTime = Some(12), !.startDate = Some(At(0, 0))])]

\* a second service of the same Sunday at the same church
EarlyMass ==
    [NoEvent EXCEPT !.name = "Early Mass", !.osmId = Cathedral, !.languages = {"es"},
        !.schedule = Some([NoSchedule EXCEPT !.byDay = {0}, !.startTime = Some(9)])]

\* buildCancellation: a one-off cancelled entry, no additionalType, no inLanguage
Cancellation ==
    [NoEvent EXCEPT !.name = "Cancelled Mass", !.status = "cancelled",
        !.osmId = Cathedral, !.startDate = Some(At(14, 11))]

SecondCancellation ==
    [NoEvent EXCEPT !.name = "Cancelled Early Mass", !.status = "cancelled",
        !.osmId = Cathedral, !.startDate = Some(At(14, 9))]

\* buildRescheduled: the Sunday 11:00 Mass moved to Monday 10:00
Rescheduled ==
    [NoEvent EXCEPT !.name = "Moved Mass", !.status = "rescheduled",
        !.osmId = Cathedral, !.startDate = Some(At(15, 10)),
        !.previousStartDate = Some(At(14, 11))]

AdorationEvent ==
    [NoEvent EXCEPT !.name = "Adoration", !.serviceType = Some(EucharisticAdoration),
        !.languages = {"la"}, !.osmId = Chapel, !.startDate = Some(At(14, 18))]

\* a one-off scheduled event without a type, a language or a location
ParishEvent ==
    [NoEvent EXCEPT !.name = "Parish Event", !.startDate = Some(At(14, 11))]

\* Sunday 08:00 in Tokyo, which is Saturday 23:00 UTC
TokyoMass ==
    [NoEvent EXCEPT !.name = "Tokyo Mass", !.serviceType = Some(Mass),
        !.languages = {"es", "la"}, !.osmId = Chapel,
        !.schedule = Some([NoSchedule EXCEPT !.byDay = {0}, !.startTime = Some(8),
                              !.endTime = Some(9), !.timezone = Some("Asia/Tokyo")])]

\* a schedule that ended on 2025-03-07, on an event that also has a startDate
StaleMass ==
    [NoEvent EXCEPT !.name = "Old Sunday Mass", !.osmId = Cathedral,
        !.startDate = Some(At(14, 11)),
        !.schedule = Some([NoSchedule EXCEPT !.byDay = {0}, !.startTime = Some(11),
                              !.endDate = Some(At(5, 0))])]

PostponedEvent ==
    [NoEvent EXCEPT !.name = "Postponed", !.status = "postponed",
        !.osmId = Cathedral, !.startDate = Some(At(14, 11))]

\* a definition with neither schedule nor startDate
UndatedEvent ==
    [NoEvent EXCEPT !.name = "Undated", !.status = "cancelled", !.osmId = Cathedral]

\* overrides stand before and after the definitions they override
Catalogue ==
    <<Cancellation, SundayMass, AdorationEvent, EarlyMass, UndatedEvent,
      SecondCancellation, ParishEvent, Rescheduled, TokyoMass, StaleMass,
      PostponedEvent>>

\* the subsequence of seq at the positions in idx, in seq's order
RECURSIVE Pick(_, _, _)
Pick(seq, idx, n) ==
    IF n = 0 THEN <<>>
    ELSE IF n \in idx THEN Append(Pick(seq, idx, n - 1), seq[n])
    ELSE Pick(seq, idx, n - 1)

\* the event lists: up to MaxEvents events of the catalogue, in its order
EventLists ==
    LET subs == {idx \in SUBSET (1..Len(Catalogue)) : Cardinality(idx) <= MaxEvents}
    IN  {Pick(Catalogue, idx, Len(Catalogue)) : idx \in subs}

\* windows: from Monday 2025-03-10T00:00Z (the tests) or Sunday 2025-03-16T12:00Z,
\* to 23:00 of the last day of a number of weeks
FromSet == {At(8, 0), At(14, 12)}
ToSet(from) ==
    {At(toYMD(from) + k * DaysPerWeek, 23) : k \in 1..MaxWeeks}

NoFilter ==
    [serviceType |-> {}, language |-> {}, includeUntyped |-> FALSE,
     includeLanguageUnknown |-> FALSE]

FilterSet ==
    {NoFilter,
     [NoFilter EXCEPT !.serviceType = {Mass}],
     [NoFilter EXCEPT !.serviceType = {Mass, EucharisticAdoration},
         !.includeUntyped = TRUE],
     [NoFilter EXCEPT !.language = {"es"}],
     [NoFilter EXCEPT !.language = {"es"}, !.includeLanguageUnknown = TRUE]}

WindowSet ==
    UNION {{[from |-> f, to |-> Some(t)] : t \in ToSet(f)} : f \in FromSet}

\* the options: every window, with the default limit under every filter and
\* with a small limit under no filter
OptsSet(filters) ==
    {w @@ [limit |-> None] @@ flt : w \in WindowSet, flt \in filters}
    \cup {w @@ [limit |-> Some(SmallLimit)] @@ NoFilter : w \in WindowSet}

ScheduleSet ==
    [byDay : {{}, {0}, {0, 3}},
     startTime : {None, Some(8), Some(15), Some(23)},
     endTime : {None},
     repeatFrequency : {<<"P", "1", "W">>, <<"P", "2", "W">>, <<"P", "1", "D">>,
                        <<"w", "e", "e", "k", "l", "y">>},
     startDate : {None, Some(At(7, 0))},
     endDate : {None, Some(At(14, 0)), Some(At(5, 0))},
     exceptDates : {{}, {14, 22}},
     timezone : {None, Some("Asia/Tokyo"), Some("America/New_York"),
                 Some("Mars/Olympus")}]

\* Sunday schedules anchored on Sunday 2025-03-02 or 2025-03-16, weekly and
\* fortnightly, with Sunday 2025-03-23 as an exception date, in UTC and in a
\* zone that changes its offset on 2025-03-30
CycleSchedules ==
    [byDay : {{0}},
     startTime : {None, Some(8)},
     endTime : {None},
     repeatFrequency : {<<"P", "1", "W">>, <<"P", "2", "W">>},
     startDate : {Some(At(0, 0)), Some(At(14, 0))},
     endDate : {None},
     exceptDates : {{}, {21}},
     timezone : {None, Some("Europe/Madrid")}]

\* schedules whose repeatFrequency is '', 'weekly', 'Pxyz' or 'PT1H', with
\* and without daysOfWeek
FallbackSchedules ==
    [byDay : {{}, {0}},
     startTime : {None, Some(8)},
     endTime : {None},
     repeatFrequency : {<<>>, <<"w", "e", "e", "k", "l", "y">>,
                        <<"P", "x", "y", "z">>, <<"P", "T", "1", "H">>},
     startDate : {None},
     endDate : {None},
     exceptDates : {{}},
     timezone : {None}]

\* schedules whose repeatFrequency has no component ('P'), a zero component
\* ('P0W', 'P0D') or a month ('P1M'), with and without daysOfWeek
InertSchedules ==
    [byDay : {{}, {0}},
     startTime : {None, Some(8)},
     endTime : {None},
     repeatFrequency : {<<"P">>, <<"P", "0", "W">>, <<"P", "0", "D">>,
                        <<"P", "1", "M">>},
     startDate : {None},
     endDate : {None},
     exceptDates : {{}, {14, 22}},
     timezone : {None}]

\* the schedules handed to expandSchedule
Schedules ==
    ScheduleSet \cup CycleSchedules \cup FallbackSchedules \cup InertSchedules

\* the recurring event that carries a schedule
RecurringEvent(s) ==
    [NoEvent EXCEPT !.osmId = Cathedral, !.schedule = Some(s)]

\* ----------------------------------------------------------- state machine

Ready ==
    /\ pc = "ready"
    /\ walk = None
    /\ op = "none"
    /\ dates = <<>>
    /\ result = <<>>

\* the platforms to tell apart: hour24 is read only when the wall clock of
\* a zone is looked up (LocalPartsMs)
Platforms(evs) ==
    IF \E n \in 1..Len(evs) :
           IsSet(evs[n].schedule) /\ IsSet(Val(evs[n].schedule).timezone)
    THEN BOOLEAN ELSE {FALSE}

\* the resolver on a list of events
Init ==
    /\ events \in EventLists
    /\ schedule = None
    /\ opts \in OptsSet(FilterSet)
    /\ hour24 \in Platforms(events)
    /\ Ready

\* expandSchedule and the resolver on one recurring definition
InitExpand ==
    /\ schedule \in {Some(s) : s \in Schedules}
    /\ events = <<RecurringEvent(Val(schedule))>>
    /\ opts \in OptsSet({NoFilter})
    /\ hour24 \in Platforms(events)
    /\ Ready

ExpandSchedule ==
    /\ pc = "ready"
    /\ IsSet(schedule)
    /\ dates' = expandSchedule(Val(schedule), opts)
    /\ pc' = "done"
    /\ op' = "expandSchedule"
    /\ UNCHANGED <<events, schedule, opts, hour24, walk, result>>

GetUpcomingEvents ==
    /\ pc = "ready"
    /\ \E out \in CallOutcomes(events, opts, getUpcomingEvents(events, opts)) :
           result' = out.result /\ pc' = out.pc
    /\ op' = "getUpcomingEvents"
    /\ UNCHANGED <<events, schedule, opts, hour24, walk, dates>>

GetUpcomingMasses ==
    /\ pc = "ready"
    /\ \E out \in CallOutcomes(events,
                                [opts EXCEPT !.serviceType = {Mass},
                                             !.includeUntyped = TRUE],
                                getUpcomingMasses(events, opts)) :
           result' = out.result /\ pc' = out.pc
    /\ op' = "getUpcomingMasses"
    /\ UNCHANGED <<events, schedule, opts, hour24, walk, dates>>

\* the same entry point called once more with the same arguments; the
\* first call left events and opts as they were and wrote nothing else
CallAgain ==
    /\ pc = "done"
    /\ op \in {"getUpcomingEvents", "getUpcomingMasses"}
    /\ result' = IF op = "getUpcomingMasses"
                 THEN getUpcomingMasses(events, opts)
                 ELSE getUpcomingEvents(events, opts)
    /\ pc' = "again"
    /\ UNCHANGED <<events, schedule, opts, hour24, walk, op, dates>>

Next == GetUpcomingEvents \/ GetUpcomingMasses \/ CallAgain

NextExpand == ExpandSchedule \/ GetUpcomingEvents

Spec == Init /\ [][Next]_vars

SpecExpand == InitExpand /\ [][NextExpand]_vars

\* ------------------------------------------- definitions with bad dates

\* a weekly Sunday Mass whose startTime is "25:00"
BadTimeMass ==
    [NoEvent EXCEPT !.name = "Mass at 25:00", !.osmId = Cathedral,
        !.schedule = Some([NoSchedule EXCEPT !.byDay = {0}, !.startTime = Some(25)])]

\* the same with an endTime
BadTimeMassWithEnd ==
    [NoEvent EXCEPT !.name = "Mass from 25:00", !.osmId = Chapel,
        !.schedule = Some([NoSchedule EXCEPT !.byDay = {0}, !.startTime = Some(25),
                              !.endTime = Some(12)])]

\* a weekly Sunday Mass whose endTime is "25:00"
BadEndTimeMass ==
    [NoEvent EXCEPT !.name = "Mass until 25:00", !.osmId = Chapel,
        !.schedule = Some([NoSchedule EXCEPT !.byDay = {0}, !.startTime = Some(11),
                              !.endTime = Some(25)])]

\* a schedule whose startDate and endDate are Invalid Dates
BadSeasonMass ==
    [NoEvent EXCEPT !.name = "Mass of no season", !.osmId = Chapel,
        !.schedule = Some([NoSchedule EXCEPT !.byDay = {0}, !.startTime = Some(9),
                              !.startDate = Some(InvalidDate),
                              !.endDate = Some(InvalidDate)])]

\* a one-off event whose startDate is an Invalid Date
BadDateEvent ==
    [NoEvent EXCEPT !.name = "Event of no date", !.startDate = Some(InvalidDate)]

MalformedCatalogue ==
    <<BadTimeMass, SundayMass, BadTimeMassWithEnd, Cancellation, BadEndTimeMass,
      BadSeasonMass, BadDateEvent>>

\* one definition of that catalogue, or two in its order
MalformedLists ==
    LET n == Len(MalformedCatalogue)
    IN  {<<MalformedCatalogue[i]>> : i \in 1..n}
        \cup UNION {{<<MalformedCatalogue[i], MalformedCatalogue[j]>> :
                        j \in (i + 1)..n} : i \in 1..n}

InitMalformed ==
    /\ events \in MalformedLists
    /\ schedule = None
    /\ opts \in OptsSet({NoFilter})
    /\ hour24 \in Platforms(events)
    /\ Ready

NextMalformed == GetUpcomingEvents \/ GetUpcomingMasses

SpecMalformed == InitMalformed /\ [][NextMalformed]_vars

\* ------------------------- definitions of both kinds and of every status

\* a weekly Sunday Mass at 11:00 that also carries a one-off startDate,
\* Wednesday 2025-03-19T10:00Z
BothMass ==
    [NoEvent EXCEPT !.name = "Mass of both kinds", !.serviceType = Some(Mass),
        !.osmId = Cathedral, !.startDate = Some(At(17, 10)),
        !.schedule = Some([NoSchedule EXCEPT !.byDay = {0}, !.startTime = Some(11)])]

\* a schedule without daysOfWeek and without a period, on an event that also
\* has a startDate
InertBoth ==
    [NoEvent EXCEPT !.name = "Inert", !.osmId = Chapel,
        !.startDate = Some(At(14, 18)),
        !.schedule = Some([NoSchedule EXCEPT !.repeatFrequency = <<"P">>])]

\* a recurring definition whose status is postponed
PostponedMass ==
    [NoEvent EXCEPT !.name = "Postponed Mass", !.serviceType = Some(Mass),
        !.status = "postponed", !.osmId = Chapel,
        !.schedule = Some([NoSchedule EXCEPT !.byDay = {0}, !.startTime = Some(9)])]

\* a one-off definition whose status is movedOnline
MovedOnlineEvent ==
    [NoEvent EXCEPT !.name = "Online", !.status = "movedOnline",
        !.osmId = Cathedral, !.startDate = Some(At(14, 11))]

DefinitionCatalogue ==
    <<Cancellation, BothMass, InertBoth, StaleMass, PostponedMass,
      MovedOnlineEvent, PostponedEvent, SundayMass>>

\* one definition of that catalogue, or two in its order
DefinitionLists ==
    LET n == Len(DefinitionCatalogue)
    IN  {<<DefinitionCatalogue[i]>> : i \in 1..n}
        \cup UNION {{<<DefinitionCatalogue[i], DefinitionCatalogue[j]>> :
                        j \in (i + 1)..n} : i \in 1..n}

InitDefinitions ==
    /\ events \in DefinitionLists
    /\ schedule = None
    /\ opts \in OptsSet(FilterSet)
    /\ hour24 \in Platforms(events)
    /\ Ready

NextDefinitions == GetUpcomingEvents \/ GetUpcomingMasses

SpecDefinitions == InitDefinitions /\ [][NextDefinitions]_vars

\* ------------------------------------------- expandSchedule, step by step

\* schedules of both modes, with and without an end, in UTC
WalkSchedules ==
    {s \in Schedules : s.timezone = None /\ s.startTime \in {None, Some(8)}}

\* a daily schedule without endDate
DailySchedule == [NoSchedule EXCEPT !.repeatFrequency = <<"P", "1", "D">>]

\* every window, with no limit, limit 0 and a small limit
WalkOpts ==
    {w @@ [limit |-> l] @@ NoFilter :
        w \in WindowSet, l \in {None, Some(0), Some(SmallLimit)}}

\* a window longer than the default limit counted in days
LongWindow ==
    [from |-> At(8, 0), to |-> Some(At(8 + LongWindowDays, 0)), limit |-> None]
        @@ NoFilter

\* the arguments of a call of expandSchedule
WalkCalls ==
    (WalkSchedules \X WalkOpts) \cup {<<DailySchedule, LongWindow>>}

\* before the call: no schedule and no options yet
InitWalk ==
    /\ schedule = None
    /\ opts = [from |-> At(8, 0), to |-> None, limit |-> None] @@ NoFilter
    /\ events = <<>>
    /\ hour24 = FALSE
    /\ Ready

\* the local variables of expandSchedule when it enters a loop at cursor c
Locals(s, o, c) ==
    [cursor |-> c,
     boundsEnd |-> BoundsEnd(s, UntilOf(o)),
     limit |-> LimitOf(o),
     dur |-> parseDuration(s.repeatFrequency),
     anchor |-> AnchorOf(s, BoundsStart(s, o.from)),
     repeatWeeks |-> RepeatWeeks(parseDuration(s.repeatFrequency))]

\* expandSchedule from its entry to the first loop test, or to its return
\* when no loop is entered
BeginWalk ==
    /\ pc = "ready"
    /\ \E call \in WalkCalls :
           LET s == call[1]
               o == call[2]
               boundsStart == BoundsStart(s, o.from)
           IN  /\ schedule' = Some(s)
               /\ opts' = o
               /\ IF EmptyBounds(boundsStart, BoundsEnd(s, UntilOf(o)))
                  THEN pc' = "done" /\ walk' = None
                  ELSE IF s.byDay # {}
                  THEN /\ pc' = "dayWalk"
                       /\ walk' = Some(Locals(s, o, utcMidnight(boundsStart)))
                  ELSE IF HasInterval(parseDuration(s.repeatFrequency))
                  THEN /\ pc' = "intervalWalk"
                       /\ walk' = Some(Locals(s, o, boundsStart))
                  ELSE pc' = "done" /\ walk' = None
    /\ dates' = <<>>
    /\ op' = "expandSchedule"
    /\ UNCHANGED <<events, hour24, result>>

\* the loop test on the local variables
WalkContinues ==
    LoopContinues(Val(walk).cursor, Val(walk).boundsEnd, Val(walk).limit, dates)

\* one pass of the day-of-week loop
DayStep ==
    /\ pc = "dayWalk"
    /\ WalkContinues
    /\ dates' = DayPass(Val(schedule), Val(walk).cursor, Val(walk).anchor,
                        Val(walk).repeatWeeks, dates)
    /\ walk' = Some([Val(walk) EXCEPT !.cursor = @ + HoursPerDay])
    /\ UNCHANGED <<events, schedule, opts, hour24, pc, op, result>>

\* one pass of the fixed-interval loop
IntervalStep ==
    /\ pc = "intervalWalk"
    /\ WalkContinues
    /\ dates' = IntervalPass(Val(schedule), Val(walk).cursor, dates)
    /\ walk' = Some([Val(walk) EXCEPT !.cursor = addDuration(@, Val(walk).dur)])
    /\ UNCHANGED <<events, schedule, opts, hour24, pc, op, result>>

\* the loop test fails: return results
EndWalk ==
    /\ pc \in {"dayWalk", "intervalWalk"}
    /\ ~WalkContinues
    /\ pc' = "done"
    /\ UNCHANGED <<events, schedule, opts, hour24, walk, op, dates, result>>

NextWalk == BeginWalk \/ DayStep \/ IntervalStep \/ EndWalk

\* a call that has begun runs on: a loop step that can be taken is taken
SpecWalk ==
    InitWalk /\ [][NextWalk]_vars /\ WF_vars(DayStep \/ IntervalStep \/ EndWalk)

\* ------------------------------------------------------ reading a result

Resolved == pc = "done" /\ op \in {"getUpcomingEvents", "getUpcomingMasses"}
Expanded == pc = "done" /\ op = "expandSchedule"

\* the options the resolver ran with
RunOpts ==
    IF op = "getUpcomingMasses"
    THEN [opts EXCEPT !.serviceType = {Mass}, !.includeUntyped = TRUE]
    ELSE opts

\* the instances emitted by the first loop of that run
RunEmitted ==
    Identified(Emitted(events, Len(events), opts.from, UntilOf(opts), RunOpts, RunOpts))

Range(seq) == {seq[k] : k \in 1..Len(seq)}

SameDayAndPlace(a, b) ==
    toYMD(a.startDate) = toYMD(b.startDate) /\ a.osmId = b.osmId

IsOneOff(i) == ~IsSet(events[i.src].schedule)

\* a scheduled instance and a one-off override for its day and location,
\* both emitted (past the filter, in the window)
OverriddenPairs ==
    LET emitted == Range(RunEmitted)
        scheduled == {i \in emitted : IsScheduled(i)}
        overrides == {i \in emitted : IsOverride(i) /\ IsOneOff(i)}
    IN  {pair \in scheduled \X overrides : SameDayAndPlace(pair[1], pair[2])}

\* ------------------------------------------------------------------ claims

\* C1: when a scheduled instance S and a one-off cancelled or rescheduled
\* definition O are both emitted, for the same UTC day and the same osmId,
\* the result contains O and no scheduled instance of that day and osmId.
C1_OverrideReconciliation ==
    Resolved =>
        \A pair \in OverriddenPairs :
            /\ pair[2] \in Range(result)
            /\ \A r \in Range(result) :
                   ~(IsScheduled(r) /\ SameDayAndPlace(r, pair[1]))

\* C1 witness: a run in which an override replaced a scheduled instance that
\* starts at another hour of the same day
C1_Witness ==
    /\ Resolved
    /\ \E pair \in OverriddenPairs :
           /\ pair[1].startDate # pair[2].startDate
           /\ pair[2] \in Range(result)

\* C2 (as stated): with a language filter and no serviceType filter, a
\* one-off scheduled event of the window is returned iff it has a tag of the
\* filter, or has no tag and includeLanguageUnknown is true.
C2_LanguageFilter ==
    (Resolved /\ op = "getUpcomingEvents" /\ opts.serviceType = {}
        /\ \A n \in 1..Len(events) : events[n].status = "scheduled") =>
        \A n \in 1..Len(events) :
            LET e == events[n]
                wanted == IF opts.language = {} THEN TRUE
                          ELSE IF e.languages = {} THEN opts.includeLanguageUnknown
                          ELSE e.languages \cap opts.language # {}
            IN  (~IsSet(e.schedule) /\ IsSet(e.startDate)
                    /\ InWindow(Val(e.startDate), opts.from, UntilOf(opts)))
                => ((\E r \in Range(result) : r.src = n) <=> wanted)

\* C3 (as stated): every instance returned for a window {from, to} has
\* from <= startDate <= to.
C3_WindowSoundness ==
    Resolved =>
        \A r \in Range(result) :
            opts.from <= r.startDate /\ r.startDate <= UntilOf(opts)

\* a schedule whose instants are shifted by a timezone
ZoneShifts(s) ==
    IsSet(s.startTime) /\ IsSet(s.timezone) /\ Val(s.timezone) \in KnownZones

\* C4 (as stated): no instant returned by expandSchedule has a UTC calendar
\* date that is a member of exceptDates.
C4_ExceptDates ==
    Expanded =>
        \A t \in Range(dates) : toYMD(t) \notin Val(schedule).exceptDates

\* C4 (amended): the same, for the schedules whose instants no timezone
\* shifts (no startTime, no timezone, or a timezone the lookup rejects).
C4_ExceptDatesUnshifted ==
    (Expanded /\ ~ZoneShifts(Val(schedule))) =>
        \A t \in Range(dates) : toYMD(t) \notin Val(schedule).exceptDates

\* C4 witness: a weekly Sunday schedule whose Sunday 2025-03-16 is an
\* exception date inside the bounds, expanded to later instants only
C4_Witness ==
    /\ Expanded /\ ~ZoneShifts(Val(schedule))
    /\ dates # <<>>
    /\ \E d \in Val(schedule).exceptDates :
           /\ DayMatches(Val(schedule), MidnightOf(d))
           /\ opts.from <= MidnightOf(d)
           /\ \A t \in Range(dates) : MidnightOf(d) < t

\* C5 (as stated): in day-of-week mode every instant's UTC weekday is a
\* member of daysOfWeek, for every startTime and every timezone.
C5_WeekdayPreserved ==
    (Expanded /\ Val(schedule).byDay # {}) =>
        \A t \in Range(dates) : getUTCDay(t) \in Val(schedule).byDay

\* C5 (amended): the same, for the schedules whose instants no timezone
\* shifts.
C5_WeekdayPreservedUnshifted ==
    (Expanded /\ Val(schedule).byDay # {} /\ ~ZoneShifts(Val(schedule))) =>
        \A t \in Range(dates) : getUTCDay(t) \in Val(schedule).byDay

\* C5 witness: a Sunday-only schedule with a start time expanded to two or
\* more instants
C5_Witness ==
    /\ Expanded /\ ~ZoneShifts(Val(schedule))
    /\ Val(schedule).byDay = {0}
    /\ IsSet(Val(schedule).startTime)
    /\ Len(dates) >= 2

\* C6 (as stated): the result holds at most one instance per (UTC day,
\* osmId).
C6_OnePerDayAndPlace ==
    Resolved =>
        \A i, j \in 1..Len(result) :
            i # j => ~SameDayAndPlace(result[i], result[j])

\* C6 (amended): the instances the result holds for one (UTC day, osmId)
\* are all scheduled or all cancelled/rescheduled, never a mix.
C6_NoMixPerDayAndPlace ==
    Resolved =>
        \A i, j \in 1..Len(result) :
            SameDayAndPlace(result[i], result[j])
                => ~(IsScheduled(result[i]) /\ IsOverride(result[j]))

\* C6 witness: two scheduled instances of the same day and location, both
\* in the result, while an override was emitted in the same run
C6_Witness ==
    /\ Resolved
    /\ \E i, j \in 1..Len(result) :
           /\ i # j
           /\ IsScheduled(result[i]) /\ IsScheduled(result[j])
           /\ SameDayAndPlace(result[i], result[j])
    /\ \E r \in Range(result) : IsOverride(r)

\* C7 (as stated): the result never holds the same override instance twice.
C7_NoDuplicateOverride ==
    Resolved =>
        \A i, j \in 1..Len(result) :
            (i # j /\ IsOverride(result[i])) => result[i].id # result[j].id

\* C8: the result is sorted ascending by startDate.
C8_Sorted ==
    Resolved =>
        \A i \in 1..(Len(result) - 1) :
            result[i].startDate <= result[i + 1].startDate

\* C8 witness: a run in which an override was appended after a later
\* scheduled instance, so that the list was out of order before the sort
C8_Witness ==
    /\ Resolved
    /\ LET before == Reconciled(RunEmitted)
       IN  \E i \in 1..(Len(before) - 1) :
               /\ before[i].startDate > before[i + 1].startDate
               /\ IsOverride(before[i + 1])

\* C9 (as stated): every instant t has validFrom <= t when startDate is set
\* and t <= validUntil when endDate is set.
C9_SeasonBounds ==
    Expanded =>
        \A t \in Range(dates) :
            /\ IsSet(Val(schedule).startDate) => Val(Val(schedule).startDate) <= t
            /\ IsSet(Val(schedule).endDate) => t <= Val(Val(schedule).endDate)

\* C9 (amended): for the schedules whose instants no timezone shifts, the
\* UTC calendar day of every instant lies between the UTC days of validFrom
\* and validUntil, both included.
C9_SeasonDays ==
    (Expanded /\ ~ZoneShifts(Val(schedule))) =>
        \A t \in Range(dates) :
            /\ IsSet(Val(schedule).startDate)
                   => toYMD(Val(Val(schedule).startDate)) <= toYMD(t)
            /\ IsSet(Val(schedule).endDate)
                   => toYMD(t) <= toYMD(Val(Val(schedule).endDate))

\* C9 witness: an instant on the last valid day, after validUntil's midnight,
\* in a window that goes on beyond validUntil
C9_Witness ==
    /\ Expanded /\ ~ZoneShifts(Val(schedule))
    /\ IsSet(Val(schedule).endDate)
    /\ Val(Val(schedule).endDate) < UntilOf(opts)
    /\ \E t \in Range(dates) :
           /\ toYMD(t) = toYMD(Val(Val(schedule).endDate))
           /\ t > Val(Val(schedule).endDate)

CycleWeeks(s) == RepeatWeeks(parseDuration(s.repeatFrequency))

IsSundayCycle(s) ==
    /\ s.byDay = {0}
    /\ IsSet(parseDuration(s.repeatFrequency).weeks)
    /\ CycleWeeks(s) >= 1
    /\ IsSet(s.startDate)
    /\ getUTCDay(Val(s.startDate)) = 0

\* every instant is a Sunday a multiple of n weeks after the anchor
OnCycleDays(s, ds) ==
    \A t \in Range(ds) :
        /\ getUTCDay(t) = 0
        /\ (toYMD(t) - toYMD(Val(s.startDate))) % (DaysPerWeek * CycleWeeks(s)) = 0

\* an exception date lies between the UTC days of two instants
ExceptionBetween(s, t1, t2) ==
    \E d \in s.exceptDates : toYMD(t1) < d /\ d < toYMD(t2)

\* C11 (as stated): for a Sunday-only schedule of period PnW anchored on a
\* Sunday, every instant is a Sunday a multiple of n weeks after the anchor,
\* and two consecutive instants are exactly 7n days apart unless an
\* exception date lies between them.
C11_MultiWeekCycle ==
    (Expanded /\ IsSundayCycle(Val(schedule))) =>
        LET s == Val(schedule)
        IN  /\ OnCycleDays(s, dates)
            /\ \A i \in 1..(Len(dates) - 1) :
                   \/ dates[i + 1] - dates[i]
                          = DaysPerWeek * CycleWeeks(s) * HoursPerDay
                   \/ ExceptionBetween(s, dates[i], dates[i + 1])

\* C11 (amended): the same, for the schedules whose instants no timezone
\* shifts.
C11_MultiWeekCycleUnshifted ==
    (Expanded /\ IsSundayCycle(Val(schedule)) /\ ~ZoneShifts(Val(schedule))) =>
        LET s == Val(schedule)
        IN  /\ OnCycleDays(s, dates)
            /\ \A i \in 1..(Len(dates) - 1) :
                   \/ dates[i + 1] - dates[i]
                          = DaysPerWeek * CycleWeeks(s) * HoursPerDay
                   \/ ExceptionBetween(s, dates[i], dates[i + 1])

\* C11 witness: a fortnightly schedule expanded to two instants over a
\* window that holds the Sunday in between
C11_Witness ==
    /\ Expanded /\ IsSundayCycle(Val(schedule)) /\ ~ZoneShifts(Val(schedule))
    /\ CycleWeeks(Val(schedule)) = 2
    /\ Val(schedule).exceptDates = {}
    /\ Len(dates) >= 2

\* the category predicate of the claim
CategoryPasses(e, filter) ==
    IF filter.serviceType = {} THEN TRUE
    ELSE IF ~IsSet(e.serviceType) THEN filter.includeUntyped
    ELSE Val(e.serviceType) \in filter.serviceType

\* the language predicate of the claims
LanguagePasses(e, filter) ==
    IF filter.language = {} THEN TRUE
    ELSE IF e.languages = {} THEN filter.includeLanguageUnknown
    ELSE e.languages \cap filter.language # {}

\* event n has an instance in the result
Returned(n) == \E r \in Range(result) : r.src = n

\* a one-off event of the window whose instance the reconciliation keeps: an
\* override, or a scheduled event that no override of the list matches
KeptOneOff(n) ==
    LET e == events[n]
    IN  /\ ~IsSet(e.schedule) /\ IsSet(e.startDate)
        /\ InWindow(Val(e.startDate), opts.from, UntilOf(opts))
        /\ \/ IsOverride(e)
           \/ /\ IsScheduled(e)
              /\ \A k \in 1..Len(events) :
                     (IsOverride(events[k]) /\ IsSet(events[k].startDate))
                         => ~(/\ toYMD(Val(events[k].startDate)) = toYMD(Val(e.startDate))
                              /\ events[k].osmId = e.osmId)

\* C12: an event is returned by getUpcomingEvents only if the category and
\* the language predicate both pass; without a language filter, a one-off
\* event of the window is returned iff the category predicate passes: with
\* a non-empty serviceType filter an untyped event iff includeUntyped, a
\* typed event iff its type is in the filter, and every event with an empty
\* filter.
C12_CategoryFilter ==
    (Resolved /\ op = "getUpcomingEvents") =>
        \A n \in 1..Len(events) :
            /\ Returned(n) =>
                   CategoryPasses(events[n], opts) /\ LanguagePasses(events[n], opts)
            /\ (KeptOneOff(n) /\ opts.language = {}) =>
                   (Returned(n) <=> CategoryPasses(events[n], opts))

\* C12 witness: under one serviceType filter an untyped one-off event of the
\* window is left out and a typed one is returned
C12_Witness ==
    /\ Resolved /\ op = "getUpcomingEvents"
    /\ opts.serviceType # {} /\ ~opts.includeUntyped
    /\ \E n, k \in 1..Len(events) :
           /\ KeptOneOff(n) /\ ~IsSet(events[n].serviceType) /\ ~Returned(n)
           /\ IsSet(events[k].serviceType) /\ Returned(k)

\* C13: getUpcomingMasses returns the list getUpcomingEvents returns for the
\* same options with serviceType = Mass and includeUntyped = true: no
\* instance of another serviceType, untyped events kept, and the language
\* filter of the options applied as getUpcomingEvents applies it.
C13_MassesWrapper ==
    (Resolved /\ op = "getUpcomingMasses") =>
        LET fixed == [opts EXCEPT !.serviceType = {Mass}, !.includeUntyped = TRUE]
        IN  /\ result = getUpcomingEvents(events, fixed)
            /\ \A r \in Range(result) :
                   /\ IsSet(r.serviceType) => Val(r.serviceType) = Mass
                   /\ opts.language # {} => r.languages \cap opts.language # {}
            /\ \A n \in 1..Len(events) :
                   (KeptOneOff(n) /\ ~IsSet(events[n].serviceType)
                       /\ opts.language = {}) => Returned(n)

\* C13 witness: getUpcomingMasses under a language filter returned an
\* untyped event and left out an event of another serviceType and an event
\* without the language
C13_Witness ==
    /\ Resolved /\ op = "getUpcomingMasses"
    /\ opts.language # {}
    /\ \E r \in Range(result) : ~IsSet(r.serviceType)
    /\ \E n, k \in 1..Len(events) :
           /\ IsSet(events[n].serviceType) /\ Val(events[n].serviceType) # Mass
           /\ KeptOneOff(n) /\ ~Returned(n)
           /\ KeptOneOff(k) /\ events[k].languages = {} /\ ~Returned(k)

\* C14: every call of expandSchedule returns, for every schedule and
\* window, and at no point holds more than limit instants, where limit is
\* 500 when not given, so none when limit is 0; what it returns over the
\* windows of a few weeks is the list the operator expandSchedule gives.
C14_CapAndTermination ==
    /\ [](Len(dates) <= LimitOf(opts))
    /\ (pc # "ready") ~> (pc = "done")
    /\ []((Expanded /\ opts # LongWindow)
              => dates = expandSchedule(Val(schedule), opts))

\* C14 witness: a daily schedule without endDate returned the default limit
\* of instants, the window going on beyond the last one
C14_Witness ==
    /\ Expanded
    /\ ~IsSet(opts.limit) /\ ~IsSet(Val(schedule).endDate)
    /\ Len(dates) = DefaultLimit
    /\ IsSet(walk) /\ Val(walk).cursor <= Val(walk).boundsEnd

WellFormed(e) ==
    /\ IsSet(e.startDate) => IsValidDate(Val(e.startDate))
    /\ IsSet(e.schedule) =>
           LET s == Val(e.schedule)
           IN  /\ IsSet(s.startDate) => IsValidDate(Val(s.startDate))
               /\ IsSet(s.endDate) => IsValidDate(Val(s.endDate))
               /\ IsSet(s.startTime) => ValidTime(Val(s.startTime))
               /\ IsSet(s.endTime) => ValidTime(Val(s.endTime))

\* an instance as the caller sees it
Published(r) ==
    [name |-> r.name, startDate |-> r.startDate, endDate |-> r.endDate,
     serviceType |-> r.serviceType, status |-> r.status, osmId |-> r.osmId,
     languages |-> r.languages, previousStartDate |-> r.previousStartDate]

\* C16 (as stated): with definitions that carry an invalid date or time the
\* resolver does not throw, no returned instance has an invalid startDate
\* or endDate, and the instances of the other definitions are those
\* returned for the list without the malformed definitions.
C16_MalformedNeverCrash ==
    (pc # "ready") =>
        /\ pc # "thrown"
        /\ \A r \in Range(result) :
               /\ IsValidDate(r.startDate)
               /\ IsSet(r.endDate) => IsValidDate(Val(r.endDate))
        /\ {Published(r) : r \in {x \in Range(result) : WellFormed(events[x.src])}}
               = {Published(r) :
                     r \in Range(resolveEvents(SelectSeq(events, WellFormed), opts.from,
                                               UntilOf(opts), RunOpts, RunOpts))}

\* a definition with a schedule or a startDate
IsDated(e) == IsSet(e.schedule) \/ IsSet(e.startDate)

\* the instances of a list as the caller sees them, in order
PublishedList(seq) == [k \in 1..Len(seq) |-> Published(seq[k])]

\* C17: the result for a list that holds definitions with neither schedule
\* nor startDate is the result for the list without them, instance by
\* instance, and the call returns.
C17_UndatedOmitted ==
    (pc # "ready") =>
        /\ pc # "thrown"
        /\ Resolved =>
               PublishedList(result)
                   = PublishedList(resolveEvents(SelectSeq(events, IsDated), opts.from,
                                                 UntilOf(opts), RunOpts, RunOpts))

\* C17 witness: an undated definition stood between two others and the
\* resolver returned instances
C17_Witness ==
    /\ Resolved
    /\ result # <<>>
    /\ \E n \in 2..(Len(events) - 1) : ~IsDated(events[n])

\* the period { weeks: 1 }
OneWeek == [years |-> None, months |-> None, weeks |-> Some(1), days |-> None]

\* a string of the form P[nY][nM][nW][nD], all of it
IsDurationForm(iso) ==
    /\ Len(iso) > 0 /\ iso[1] = "P"
    /\ LET y == Group(iso, 2, "Y")
           m == Group(iso, y.next, "M")
           w == Group(iso, m.next, "W")
           d == Group(iso, w.next, "D")
       IN  d.next = Len(iso) + 1

\* C18 (as stated): for a repeatFrequency that is not of the form
\* P[nY][nM][nW][nD], parseDuration returns { weeks: 1 }, and a schedule
\* with such a string and empty daysOfWeek expands as the same schedule
\* with P1W does.
C18_DurationFallback ==
    (Expanded /\ ~IsDurationForm(Val(schedule).repeatFrequency)) =>
        /\ parseDuration(Val(schedule).repeatFrequency) = OneWeek
        /\ Val(schedule).byDay = {} =>
               dates = expandSchedule(
                           [Val(schedule) EXCEPT !.repeatFrequency = <<"P", "1", "W">>],
                           opts)

\* the days expandSchedule applied the startTime to: the instants of the
\* same schedule without startTime are copies of the walk's cursor
WalkedDays == expandSchedule([Val(schedule) EXCEPT !.startTime = None], opts)

\* C19 (as stated): applyTimeToDate(date, HH:00, zone) is the instant whose
\* wall clock in the zone shows the UTC calendar day of date at HH:00, for
\* a zone whose offset is the same at date + HH:00 read as UTC and at the
\* returned instant; with no zone, or a zone the lookup rejects, it is date
\* + HH:00 read as UTC.
C19_LocalTime ==
    (Expanded /\ IsSet(Val(schedule).startTime)) =>
        /\ Len(dates) = Len(WalkedDays)
        /\ \A k \in 1..Len(dates) :
               LET s == Val(schedule)
                   asUTC == utcMidnight(WalkedDays[k]) + Val(s.startTime)
                   zone == Val(s.timezone)
               IN  IF IsSet(s.timezone) /\ zone \in KnownZones
                   THEN ZoneOffset(zone, asUTC) = ZoneOffset(zone, dates[k])
                            => dates[k] + ZoneOffset(zone, dates[k]) = asUTC
                   ELSE dates[k] = asUTC

\* C20 (as stated): when the result holds a rescheduled instance with
\* previousStartDate T and location L, it holds no scheduled instance that
\* starts at T at L.
C20_RescheduledReplaces ==
    Resolved =>
        \A r \in Range(result) :
            (r.status = "rescheduled" /\ IsSet(r.previousStartDate)) =>
                \A x \in Range(result) :
                    ~(/\ IsScheduled(x)
                      /\ x.startDate = Val(r.previousStartDate)
                      /\ x.osmId = r.osmId)

\* a definition with both a schedule and a one-off startDate
IsOfBothKinds(e) == IsSet(e.schedule) /\ IsSet(e.startDate)

\* the instants the schedule of a definition gives for the window of the run
ScheduleDates(e) ==
    IF IsStale(Val(e.schedule), opts.from) THEN <<>>
    ELSE expandSchedule(Val(e.schedule), [RunOpts EXCEPT !.to = Some(UntilOf(opts))])

\* the instances of the result that come from definition n
ReturnedFrom(n) == {k \in 1..Len(result) : result[k].src = n}

\* C21: for a definition with both a schedule and a one-off startDate, every
\* instance of the result that comes from it starts at an instant expanded
\* from the schedule and carries no previousStartDate; it contributes nothing
\* when the schedule is stale or expands to nothing; and when it passes the
\* filter and the list holds no override it contributes one instance per
\* expanded instant.
C21_RecurrencePriority ==
    Resolved =>
        \A n \in 1..Len(events) :
            IsOfBothKinds(events[n]) =>
                LET ds == ScheduleDates(events[n])
                IN  /\ \A k \in ReturnedFrom(n) :
                           /\ result[k].startDate \in Range(ds)
                           /\ result[k].previousStartDate = None
                    /\ ds = <<>> => ReturnedFrom(n) = {}
                    /\ (/\ matchesFilter(events[n], RunOpts)
                        /\ \A j \in 1..Len(events) : ~IsOverride(events[j]))
                           => Cardinality(ReturnedFrom(n)) = Len(ds)

\* C21 witness: a definition of both kinds whose one-off startDate lies in
\* the window returned the Sundays of its schedule
C21_Witness ==
    /\ Resolved
    /\ \E n \in 1..Len(events) :
           /\ IsOfBothKinds(events[n])
           /\ InWindow(Val(events[n].startDate), opts.from, UntilOf(opts))
           /\ ReturnedFrom(n) # {}
           /\ Val(events[n].startDate) \notin Range(ScheduleDates(events[n]))

\* an override of the result that matched no emitted scheduled instance
IsUnmatched(r) ==
    /\ IsOverride(r)
    /\ \A x \in Range(RunEmitted) : IsScheduled(x) => ~SameDayAndPlace(r, x)

\* C22 (as stated): two instances of the result with equal startDate stand
\* in the order of their defining events in the input list.
C22_InputOrderTieBreak ==
    Resolved =>
        \A i, j \in 1..Len(result) :
            (i < j /\ result[i].startDate = result[j].startDate)
                => result[i].src <= result[j].src

\* C22 (amended): of two instances with equal startDate, two scheduled ones
\* stand in the order of their defining events, and an unmatched override
\* never stands before a scheduled instance, whatever the input order.
C22_TieBreakByKind ==
    Resolved =>
        \A i, j \in 1..Len(result) :
            (i < j /\ result[i].startDate = result[j].startDate) =>
                /\ (IsScheduled(result[i]) /\ IsScheduled(result[j]))
                       => result[i].src <= result[j].src
                /\ ~(IsUnmatched(result[i]) /\ IsScheduled(result[j]))

\* C22 witness: a scheduled instance stands before an unmatched override of
\* the same startDate whose definition came first in the input
C22_Witness ==
    /\ Resolved
    /\ \E i, j \in 1..Len(result) :
           /\ i < j /\ result[i].startDate = result[j].startDate
           /\ IsScheduled(result[i]) /\ IsUnmatched(result[j])
           /\ result[i].src > result[j].src

\* max(window.from, validFrom) and min(window.to, validUntil)
RefBoundsStart(s, o) ==
    IF IsSet(s.startDate) /\ Val(s.startDate) > o.from THEN Val(s.startDate) ELSE o.from

RefBoundsEnd(s, o) ==
    IF IsSet(s.endDate) /\ Val(s.endDate) < UntilOf(o) THEN Val(s.endDate)
    ELSE UntilOf(o)

\* the number of complete weeks from day a to day d
WholeWeeks(a, d) == (d - a) \div DaysPerWeek

\* the number of weeks from day a to day d, rounded to the nearest whole
\* number (half a week rounds up)
NearestWeeks(a, d) == (2 * (d - a) + DaysPerWeek) \div (2 * DaysPerWeek)

\* the UTC days the reference names, with Weeks the count of weeks from the
\* anchor's day
RefDays(s, o, Weeks(_, _)) ==
    LET bs == RefBoundsStart(s, o)
        be == RefBoundsEnd(s, o)
        a == toYMD(IF IsSet(s.startDate) THEN Val(s.startDate) ELSE bs)
    IN  {d \in toYMD(bs)..toYMD(be) :
            /\ MidnightOf(d) <= be
            /\ d % DaysPerWeek \in s.byDay
            /\ Weeks(a, d) % CycleWeeks(s) = 0
            /\ d \notin s.exceptDates}

\* a call in day-of-week mode with bounds that are not empty and a period
\* of one week or more, that ended before the limit
DayModeCall ==
    /\ Expanded
    /\ Val(schedule).byDay # {}
    /\ CycleWeeks(Val(schedule)) >= 1
    /\ RefBoundsStart(Val(schedule), opts) <= RefBoundsEnd(Val(schedule), opts)
    /\ Len(dates) < LimitOf(opts)

StrictlyAscending(ds) == \A k \in 1..(Len(ds) - 1) : ds[k] < ds[k + 1]

\* C23 (as stated): in day-of-week mode, limit not reached, the UTC days
\* for which an instant is generated are the days D from the UTC midnight
\* of boundsStart to boundsEnd whose weekday is in daysOfWeek, whose count of
\* whole weeks from the anchor is a multiple of repeatWeeks and that are not
\* in exceptDates; one instant per day, strictly ascending.
C23_DayOfWeekReference ==
    DayModeCall =>
        /\ {toYMD(c) : c \in Range(WalkedDays)} = RefDays(Val(schedule), opts, WholeWeeks)
        /\ Len(dates) = Cardinality(RefDays(Val(schedule), opts, WholeWeeks))
        /\ StrictlyAscending(dates)

\* C23 (amended): the same with the count of weeks from the anchor rounded
\* to the nearest whole number; and a week count of 0 generates nothing.
C23_DayOfWeekNearestWeek ==
    /\ DayModeCall =>
        /\ {toYMD(c) : c \in Range(WalkedDays)}
               = RefDays(Val(schedule), opts, NearestWeeks)
        /\ Len(dates) = Cardinality(RefDays(Val(schedule), opts, NearestWeeks))
        /\ StrictlyAscending(dates)
    /\ (Expanded /\ Val(schedule).byDay # {} /\ CycleWeeks(Val(schedule)) = 0)
           => dates = <<>>

\* C23 witness: a fortnightly schedule generated an instant for a day that
\* is an odd number of whole weeks after its anchor
C23_Witness ==
    /\ DayModeCall
    /\ CycleWeeks(Val(schedule)) = 2
    /\ \E c \in Range(WalkedDays) :
           toYMD(c) \notin RefDays(Val(schedule), opts, WholeWeeks)

\* the parsed period of a schedule and its non-zero components
PeriodOf(s) == parseDuration(s.repeatFrequency)
HasNonZeroComponent(s) ==
    \E part \in {PeriodOf(s).years, PeriodOf(s).months, PeriodOf(s).weeks,
                 PeriodOf(s).days} : IsSet(part) /\ Val(part) # 0

\* a period of weeks and days only, and its length in hours
IsWeeksAndDays(s) == ~IsSet(PeriodOf(s).years) /\ ~IsSet(PeriodOf(s).months)
PartOr0(part) == IF IsSet(part) THEN Val(part) ELSE 0
PeriodHours(s) ==
    (PartOr0(PeriodOf(s).weeks) * DaysPerWeek + PartOr0(PeriodOf(s).days))
        * HoursPerDay

\* boundsStart, boundsStart + P, boundsStart + 2P, ... while <= boundsEnd
RefCursors(s, o) ==
    LET bs == RefBoundsStart(s, o)
        be == RefBoundsEnd(s, o)
    IN  IF bs > be THEN <<>>
        ELSE [k \in 1..((be - bs) \div PeriodHours(s) + 1) |->
                 bs + (k - 1) * PeriodHours(s)]

\* one instant per cursor value whose UTC date is no exception date, up to
\* limit
RefInstants(s, o) ==
    LET NotExcepted(c) == toYMD(c) \notin s.exceptDates
        kept == SelectSeq(RefCursors(s, o), NotExcepted)
        n == IF Len(kept) < LimitOf(o) THEN Len(kept) ELSE LimitOf(o)
    IN  [k \in 1..n |-> InstanceAt(s, kept[k])]

\* C24: with empty daysOfWeek and a period of weeks and days with a non-zero
\* component, expandSchedule returns one instant per cursor value
\* boundsStart + kP <= boundsEnd whose UTC date is not in exceptDates, up to
\* limit; with a month in the period the first cursor is boundsStart; with no
\* non-zero component it returns the empty list.
C24_FixedInterval ==
    (Expanded /\ Val(schedule).byDay = {}) =>
        LET s == Val(schedule)
        IN  /\ (HasNonZeroComponent(s) /\ IsWeeksAndDays(s))
                   => dates = RefInstants(s, opts)
            /\ (HasNonZeroComponent(s) /\ ~IsWeeksAndDays(s)
                   /\ LimitOf(opts) > 0 /\ ~IsExcepted(s, RefBoundsStart(s, opts)))
                   => (dates # <<>>
                       /\ dates[1] = InstanceAt(s, RefBoundsStart(s, opts)))
            /\ ~HasNonZeroComponent(s) => dates = <<>>

\* C24 witness: a fixed-interval schedule returned two or more instants and
\* left out a cursor value that fell on an exception date
C24_Witness ==
    /\ Expanded /\ Val(schedule).byDay = {}
    /\ HasNonZeroComponent(Val(schedule)) /\ IsWeeksAndDays(Val(schedule))
    /\ Len(dates) >= 2
    /\ Len(dates) < LimitOf(opts)
    /\ \E c \in Range(RefCursors(Val(schedule), opts)) : IsExcepted(Val(schedule), c)

\* an emitted scheduled instance that the result holds itself, or for whose
\* UTC day and osmId the result holds an override
Accounted(e) ==
    \/ e \in Range(result)
    \/ \E r \in Range(result) : IsOverride(r) /\ SameDayAndPlace(r, e)

\* C25: every emitted instance with status scheduled is in the result or
\* the result holds a cancelled/rescheduled override of its UTC day and
\* osmId, and every emitted instance with status cancelled or rescheduled
\* is in the result.
C25_NothingLost ==
    Resolved =>
        \A e \in Range(RunEmitted) :
            /\ IsScheduled(e) => Accounted(e)
            /\ IsOverride(e) => e \in Range(result)

\* C25 witness: one emitted scheduled instance gave way to an override and
\* an override that matched nothing was appended
C25_Witness ==
    /\ Resolved
    /\ \E e \in Range(RunEmitted) : IsScheduled(e) /\ e \notin Range(result)
    /\ \E r \in Range(result) : IsUnmatched(r)

\* the statuses the reconciliation drops
IsDropped(e) == e.status \in {"postponed", "movedOnline"}

\* C26: every instance of the result has status scheduled, cancelled or
\* rescheduled, and a definition whose status is postponed or movedOnline
\* has no instance in the result.
C26_StatusOfResults ==
    Resolved =>
        /\ \A r \in Range(result) :
               r.status \in {"scheduled", "cancelled", "rescheduled"}
        /\ \A n \in 1..Len(events) : IsDropped(events[n]) => ~Returned(n)

\* C26 witness: a postponed or movedOnline definition passed the filter and
\* gave instances in the window, and the result holds instances of another
\* definition only
C26_Witness ==
    /\ Resolved
    /\ result # <<>>
    /\ \E e \in Range(RunEmitted) : IsDropped(e)

\* an instance expanded from a recurrence with startTime <= endTime
HasTimesInOrder(r) ==
    LET e == events[r.src]
    IN  /\ IsSet(e.schedule)
        /\ IsSet(Val(e.schedule).startTime) /\ IsSet(Val(e.schedule).endTime)
        /\ Val(Val(e.schedule).startTime) <= Val(Val(e.schedule).endTime)

\* C27 (as stated): an instance expanded from a recurrence with startTime <=
\* endTime has an endDate that is not earlier than its startDate, for every
\* timezone.
C27_EndAfterStart ==
    Resolved =>
        \A r \in Range(result) :
            HasTimesInOrder(r) =>
                (IsSet(r.endDate) /\ r.startDate <= Val(r.endDate))

\* a one-off cancelled definition of the input whose startDate lies in the
\* window, whether or not it passes the filter
IsCancellationInWindow(e) ==
    /\ e.status = "cancelled"
    /\ ~IsSet(e.schedule) /\ IsSet(e.startDate)
    /\ InWindow(Val(e.startDate), opts.from, UntilOf(opts))

\* C28 (as stated): when a scheduled instance is emitted (its event passes
\* the filter) and the input holds a one-off cancelled definition in the
\* window for the same UTC day and osmId, the result holds no scheduled
\* instance for that day and osmId, under every filter.
C28_CancellationNeverHidden ==
    Resolved =>
        \A s \in Range(RunEmitted) :
            \A k \in 1..Len(events) :
                (/\ IsScheduled(s)
                 /\ IsCancellationInWindow(events[k])
                 /\ toYMD(Val(events[k].startDate)) = toYMD(s.startDate)
                 /\ events[k].osmId = s.osmId)
                    => \A r \in Range(result) :
                           ~(IsScheduled(r) /\ SameDayAndPlace(r, s))

\* the UTC days for which expandSchedule generates an instant under options o
FiredDays(s, o) ==
    {toYMD(c) : c \in Range(expandSchedule([s EXCEPT !.startTime = None], o))}

\* the window of o holds every hour of UTC day d
ContainsDay(o, d) == o.from <= At(d, 0) /\ At(d, HoursPerDay - 1) <= UntilOf(o)

\* the options of the model that set no limit
UnlimitedOpts == {o \in OptsSet({NoFilter}) : ~IsSet(o.limit)}

\* C29 (as stated): for a day-of-week schedule and two windows that both
\* fully contain UTC day D, the limit not reached, an instant is generated
\* for D under the one window iff one is generated for D under the other.
C29_WindowIndependence ==
    (Expanded /\ Val(schedule).byDay # {} /\ Len(dates) < LimitOf(opts)) =>
        \A other \in UnlimitedOpts :
            \A d \in toYMD(opts.from)..toYMD(UntilOf(opts)) :
                (ContainsDay(opts, d) /\ ContainsDay(other, d)) =>
                    (d \in FiredDays(Val(schedule), opts)
                        <=> d \in FiredDays(Val(schedule), other))

\* the instant at which the wall clock of zone shows day d, hour h
LocalInstant(zone, d, h) ==
    CHOOSE t \in (At(d, h) - HoursPerDay)..(At(d, h) + HoursPerDay) :
        t + ZoneOffset(zone, t) = At(d, h)

\* an occurrence of schedule s on local calendar day d: the weekday, cycle
\* and exception conditions hold for d
IsOccurrenceDay(s, o, d) ==
    /\ d % DaysPerWeek \in s.byDay
    /\ InCycle(MidnightOf(d), AnchorOf(s, RefBoundsStart(s, o)), CycleWeeks(s))
    /\ d \notin s.exceptDates

\* C30 (as stated): for a day-of-week schedule with a startTime and a
\* timezone, the limit not reached, every occurrence whose local calendar
\* day satisfies the weekday, cycle and exception conditions and whose
\* instant t has boundsStart <= t <= boundsEnd is in the output of
\* expandSchedule (read on a platform that prints midnight as 00).
C30_InstantCompleteness ==
    (/\ Expanded /\ ~hour24
     /\ Val(schedule).byDay # {}
     /\ ZoneShifts(Val(schedule))
     /\ Len(dates) < LimitOf(opts)) =>
        LET s == Val(schedule)
            bs == RefBoundsStart(s, opts)
            be == RefBoundsEnd(s, opts)
        IN  \A d \in (toYMD(bs) - 1)..(toYMD(be) + 1) :
                LET t == LocalInstant(Val(s.timezone), d, Val(s.startTime))
                IN  (IsOccurrenceDay(s, opts, d) /\ bs <= t /\ t <= be)
                        => t \in Range(dates)

====
